---------------------------- MODULE Spec2Model ----------------------------
(***************************************************************************)
(* Model of stack_overflow_validator.py: extraction of fenced code blocks, *)
(* the deprecation and magic-number scans of one block, and the synthesis  *)
(* of the verdict by validate_stackoverflow_answer.                        *)
(*                                                                         *)
(* A Python str that the program reads (the answer text, a code block, the *)
(* url) is a sequence of one-character strings.  A str that the program    *)
(* builds (a finding, an issue, the message) is a sequence of pieces whose *)
(* concatenation is the str: the literals of the source are kept whole and *)
(* the interpolated parts are spelled character by character.              *)
(***************************************************************************)
EXTENDS Integers, Sequences, FiniteSets

VARIABLES answer_text, url, current_year, pc, code_blocks, i, findings,
          all_issues, result

vars == <<answer_text, url, current_year, pc, code_blocks, i, findings,
          all_issues, result>>

-----------------------------------------------------------------------------
(* Characters and the character classes of Python's re module (ASCII part) *)

Digits == {"0", "1", "2", "3", "4", "5", "6", "7", "8", "9"}

Letters ==
  {"a", "b", "c", "d", "e", "f", "g", "h", "i", "j", "k", "l", "m",
   "n", "o", "p", "q", "r", "s", "t", "u", "v", "w", "x", "y", "z",
   "A", "B", "C", "D", "E", "F", "G", "H", "I", "J", "K", "L", "M",
   "N", "O", "P", "Q", "R", "S", "T", "U", "V", "W", "X", "Y", "Z"}

\* The backtick, which a TLA+ string cannot hold, has a name of its own.
Backtick == "<backtick>"

\* \d
IsDigit(c) == c \in Digits

\* \w
IsWord(c) == c \in Digits \cup Letters \cup {"_"}

\* the literal `lit` matches `s` at position p
MatchLit(s, p, lit) ==
  /\ p >= 1
  /\ p + Len(lit) - 1 <= Len(s)
  /\ \A k \in 1..Len(lit) : s[p + k - 1] = lit[k]

\* \b at position p: between s[p-1] and s[p], the ends of s counting as non-word
WordBoundary(s, p) ==
  LET before == p > 1 /\ p - 1 <= Len(s) /\ IsWord(s[p - 1])
      after  == p >= 1 /\ p <= Len(s) /\ IsWord(s[p])
  IN before # after

\* the position after the greedy \d* that starts at position p
DigitRunEnd(s, p) ==
  LET stops == {k \in p..Len(s) : ~IsDigit(s[k])}
  IN IF stops = {} THEN Len(s) + 1
     ELSE CHOOSE k \in stops : \A m \in stops : k <= m

\* str.join
RECURSIVE Join(_, _)
Join(sep, list) ==
  IF list = <<>> THEN <<>>
  ELSE IF Len(list) = 1 THEN list[1]
  ELSE list[1] \o sep \o Join(sep, Tail(list))

\* str(n) of a non-negative int, as the f-strings format it
RECURSIVE IntToStr(_)
IntToStr(n) ==
  LET d == <<"0", "1", "2", "3", "4", "5", "6", "7", "8", "9">>
  IN IF n < 10 THEN <<d[n + 1]>>
     ELSE IntToStr(n \div 10) \o <<d[(n % 10) + 1]>>

\* the value of one decimal digit
DigitValue(c) ==
  CASE c = "0" -> 0 [] c = "1" -> 1 [] c = "2" -> 2 [] c = "3" -> 3
    [] c = "4" -> 4 [] c = "5" -> 5 [] c = "6" -> 6 [] c = "7" -> 7
    [] c = "8" -> 8 [] c = "9" -> 9

\* the value int() gives a run of decimal digits
RECURSIVE ParseInt(_)
ParseInt(ds) ==
  IF ds = <<>> THEN 0
  ELSE 10 * ParseInt(SubSeq(ds, 1, Len(ds) - 1)) + DigitValue(ds[Len(ds)])

-----------------------------------------------------------------------------
(* extract_code_blocks: re.findall(r'```(?:python)?\n(.*?)```', text, DOTALL) *)

\* Fence == "```"
Fence == <<Backtick, Backtick, Backtick>>
\* PythonTag == "python"
PythonTag == <<"p", "y", "t", "h", "o", "n">>
\* Newline == "\n"
Newline == <<"\n">>

\* Where the group (.*?) starts when ```(?:python)?\n matches at p, else 0.
\* The optional tag is tried first, then the match without it.
OpeningEnd(text, p) ==
  IF ~MatchLit(text, p, Fence) THEN 0
  ELSE IF MatchLit(text, p + 3, PythonTag \o Newline) THEN p + 10
  ELSE IF MatchLit(text, p + 3, Newline) THEN p + 4
  ELSE 0

\* (.*?)(?:```|$) in place of (.*?)```: an unterminated fence takes the rest
\* of the text.
ClosingFenceOrEnd(text, from) ==
  LET at == {q \in from..Len(text) : MatchLit(text, q, Fence)}
  IN IF at = {} THEN Len(text) + 1 ELSE CHOOSE q \in at : \A m \in at : q <= m

\* The lazy (.*?)``` from position `from`: the first closing fence, else 0.
\* With DOTALL the dot also takes line breaks.
ClosingFence(text, from) ==
  LET at == {q \in from..Len(text) : MatchLit(text, q, Fence)}
  IN IF at = {} THEN 0 ELSE CHOOSE q \in at : \A m \in at : q <= m

\* findall: scan from p; after a match the scan resumes behind the match,
\* after a failure at the next character.
RECURSIVE FindAllBlocks(_, _)
FindAllBlocks(text, p) ==
  IF p > Len(text) THEN <<>>
  ELSE LET start == OpeningEnd(text, p)
           close == IF start = 0 THEN 0 ELSE ClosingFence(text, start)
       IN IF close = 0 THEN FindAllBlocks(text, p + 1)
          ELSE <<SubSeq(text, start, close - 1)>> \o FindAllBlocks(text, close + 3)

extract_code_blocks(text) == FindAllBlocks(text, 1)

-----------------------------------------------------------------------------
(* check_imports *)

\* The rule table. Each pattern is a literal, the last one followed by \w+.
deprecated_patterns ==
  \* << [lit |-> "from tkinter import ttk", word |-> FALSE,
  << [lit |-> <<"f", "r", "o", "m", " ", "t", "k", "i", "n", "t", "e", "r", " ", "i", "m", "p", "o", "r", "t", " ", "t", "t", "k">>, word |-> FALSE,
      message |-> "ttk is still fine, but are YOU?"],
     \* [lit |-> "import urllib2", word |-> FALSE,
     [lit |-> <<"i", "m", "p", "o", "r", "t", " ", "u", "r", "l", "l", "i", "b", "2">>, word |-> FALSE,
      message |-> "Python 2 called, it wants its imports back"],
     \* [lit |-> "from StringIO import", word |-> FALSE,
     [lit |-> <<"f", "r", "o", "m", " ", "S", "t", "r", "i", "n", "g", "I", "O", " ", "i", "m", "p", "o", "r", "t">>, word |-> FALSE,
      message |-> "This import is so old it has a pension"],
     \* [lit |-> "import md5", word |-> FALSE,
     [lit |-> <<"i", "m", "p", "o", "r", "t", " ", "m", "d", "5">>, word |-> FALSE,
      message |-> "MD5? More like M-Deprecated"],
     \* [lit |-> "print ", word |-> TRUE,
     [lit |-> <<"p", "r", "i", "n", "t", " ">>, word |-> TRUE,
      message |-> "Missing parentheses - the classic sign of vintage code"] >>

\* re.match in place of re.search: the pattern is tried at the start only.
ReMatch(pattern, code) ==
  /\ MatchLit(code, 1, pattern.lit)
  /\ pattern.word =>
       /\ 1 + Len(pattern.lit) <= Len(code)
       /\ IsWord(code[1 + Len(pattern.lit)])

\* re.search(pattern, code) as a truth value
ReSearch(pattern, code) ==
  \E p \in 1..Len(code) :
    /\ MatchLit(code, p, pattern.lit)
    /\ pattern.word =>
         /\ p + Len(pattern.lit) <= Len(code)
         /\ IsWord(code[p + Len(pattern.lit)])

\* the loop over the table from rule k on
RECURSIVE CheckImportsFrom(_, _)
CheckImportsFrom(code, k) ==
  IF k > Len(deprecated_patterns) THEN <<>>
  ELSE (IF ReSearch(deprecated_patterns[k], code)
          THEN << <<deprecated_patterns[k].message>> >>
          ELSE <<>>)
       \o CheckImportsFrom(code, k + 1)

check_imports(code) == CheckImportsFrom(code, 1)

-----------------------------------------------------------------------------
(* check_for_magic_numbers: re.findall(r'\b\d{3,}\b', code) *)

MinDigits == 3

\* \d{3,} in place of \b\d{3,}\b: a digit run inside a word counts too.
MagicEndUnbounded(code, p) ==
  IF ~(p <= Len(code) /\ IsDigit(code[p])) THEN 0
  ELSE IF DigitRunEnd(code, p) - p >= MinDigits THEN DigitRunEnd(code, p)
  ELSE 0

\* Where \b\d{3,}\b ends when it matches at p, else 0. The greedy run is
\* given back digit by digit until \b holds or fewer than MinDigits remain.
MagicEnd(code, p) ==
  IF ~(p <= Len(code) /\ IsDigit(code[p]) /\ WordBoundary(code, p)) THEN 0
  ELSE LET ends == {e \in (p + MinDigits)..DigitRunEnd(code, p) :
                      WordBoundary(code, e)}
       IN IF ends = {} THEN 0
          ELSE CHOOSE e \in ends : \A m \in ends : e >= m

RECURSIVE FindAllMagic(_, _)
FindAllMagic(code, p) ==
  IF p > Len(code) THEN <<>>
  ELSE LET e == MagicEnd(code, p)
       IN IF e = 0 THEN FindAllMagic(code, p + 1)
          ELSE <<SubSeq(code, p, e - 1)>> \o FindAllMagic(code, e)

check_for_magic_numbers(code) ==
  LET magic_numbers == FindAllMagic(code, 1)
  IN IF magic_numbers # <<>>
       THEN << <<"Magic number(s) found: ">>
               \o Join(<<", ">>, magic_numbers)
               \o <<" - hope they're not port numbers">> >>
       ELSE <<>>

-----------------------------------------------------------------------------
(* The URL heuristic of validate_stackoverflow_answer *)

Threshold == 1000000

YearsBack == 5

\* int() refuses a digit string longer than this with ValueError
\* (sys.int_info.default_max_str_digits of CPython 3.11).
IntMaxStrDigits == 4300

\* the absent url (the default None)
None == <<"<None>">>

\* QuestionPage == "stackoverflow.com/questions/"
QuestionPage == <<"s", "t", "a", "c", "k", "o", "v", "e", "r", "f", "l", "o", "w", ".", "c", "o", "m", "/", "q", "u", "e", "s", "t", "i", "o", "n", "s", "/">>
\* Questions == "questions/"
Questions == <<"q", "u", "e", "s", "t", "i", "o", "n", "s", "/">>
Slash == "/"

\* Where prefix\d+/ matches at p, the position of the closing slash, else 0.
\* The greedy \d+ cannot give digits back: what follows a shorter run is a digit.
DigitsSlashEnd(s, p, prefix) ==
  IF ~MatchLit(s, p, prefix) THEN 0
  ELSE LET from == p + Len(prefix)
           e == DigitRunEnd(s, from)
       IN IF e > from /\ e <= Len(s) /\ s[e] = Slash THEN e ELSE 0

\* re.search(r'stackoverflow\.com/questions/\d+/', url) as a truth value
IsQuestionPage(s) == \E p \in 1..Len(s) : DigitsSlashEnd(s, p, QuestionPage) # 0

\* re.search(r'questions/(\d+)/', url): group(1) of the first match, or None
QuestionIdMatch(s) ==
  LET at == {p \in 1..Len(s) : DigitsSlashEnd(s, p, Questions) # 0}
  IN IF at = {} THEN None
     ELSE LET p == CHOOSE q \in at : \A m \in at : q <= m
          IN SubSeq(s, p + Len(Questions), DigitsSlashEnd(s, p, Questions) - 1)

\* the f-string of the URL issue
UrlIssue(qid, year) ==
  <<"Question ID ">> \o IntToStr(qid)
    \o <<" looks ancient (like before ">> \o IntToStr(year - YearsBack) \o <<")">>

-----------------------------------------------------------------------------
(* The verdicts *)

NotReturned == [pending |-> TRUE]

Suspicious ==
  [status |-> "SUSPICIOUS",
   message |-> <<"No code blocks found. Probably just philosophical advice about programming.">>]

\* "\n- ".join(all_issues) in place of "\n- ".join([''] + all_issues): the
\* first issue follows the header directly.
ProbablyOutdatedUndashed(issue_list) ==
  [status |-> "PROBABLY_OUTDATED",
   message |-> <<"Potential issues found:">> \o Join(<<"\n- ">>, issue_list),
   advice |-> <<"Check library docs instead. Or just rewrite it yourself like a real developer.">>]

\* "Potential issues found:" + "\n- ".join([''] + all_issues)
ProbablyOutdated(issue_list) ==
  [status |-> "PROBABLY_OUTDATED",
   message |-> <<"Potential issues found:">>
                 \o Join(<<"\n- ">>, << <<>> >> \o issue_list),
   advice |-> <<"Check library docs instead. Or just rewrite it yourself like a real developer.">>]

MaybeOk ==
  [status |-> "MAYBE_OK",
   message |-> <<"No obvious red flags. But remember: Stack Overflow answers age like milk.">>,
   advice |-> <<"Test thoroughly before production. Or better yet, write your own solution.">>]

\* f"Block {i}: {' | '.join(issues)}"
BlockSummary(n, issues) ==
  <<"Block ">> \o IntToStr(n) \o <<": ">> \o Join(<<" | ">>, issues)

-----------------------------------------------------------------------------
(* validate_stackoverflow_answer, one action per stage *)

\* code_blocks = extract_code_blocks(answer_text), and the return of
\* SUSPICIOUS when there is none
Extract ==
  /\ pc = "start"
  /\ code_blocks' = extract_code_blocks(answer_text)
  /\ IF code_blocks' = <<>>
       THEN /\ result' = Suspicious
            /\ pc' = "done"
            /\ UNCHANGED <<i, all_issues>>
       ELSE /\ all_issues' = <<>>
            /\ i' = 1
            /\ pc' = "loop"
            /\ UNCHANGED result
  /\ UNCHANGED <<answer_text, url, current_year, findings>>

\* The loop numbering the flagged blocks among themselves instead of using
\* the index of enumerate.
AnalyzeBlockCountingFlagged ==
  /\ pc = "loop"
  /\ i <= Len(code_blocks)
  /\ LET code == code_blocks[i]
         issues == check_imports(code) \o check_for_magic_numbers(code)
     IN /\ findings' = Append(findings, issues)
        /\ all_issues' = IF issues # <<>>
                           THEN Append(all_issues,
                                       BlockSummary(Len(all_issues) + 1, issues))
                           ELSE all_issues
  /\ i' = i + 1
  /\ UNCHANGED <<answer_text, url, current_year, pc, code_blocks, result>>

\* one turn of: for i, code in enumerate(code_blocks, 1)
AnalyzeBlock ==
  /\ pc = "loop"
  /\ i <= Len(code_blocks)
  /\ LET code == code_blocks[i]
         issues == check_imports(code) \o check_for_magic_numbers(code)
     IN /\ findings' = Append(findings, issues)
        /\ all_issues' = IF issues # <<>>
                           THEN Append(all_issues, BlockSummary(i, issues))
                           ELSE all_issues
  /\ i' = i + 1
  /\ UNCHANGED <<answer_text, url, current_year, pc, code_blocks, result>>

\* the lines after the loop, up to the append of the URL issue
UrlHeuristic ==
  /\ pc = "loop"
  /\ i > Len(code_blocks)
  /\ LET match == IF url # None /\ url # <<>> /\ IsQuestionPage(url)
                    THEN QuestionIdMatch(url)
                    ELSE None
     IN IF match = None
          THEN /\ pc' = "return"
               /\ UNCHANGED <<all_issues, result>>
          ELSE IF Len(match) > IntMaxStrDigits
          THEN /\ pc' = "raised"
               /\ result' = [raised |-> "ValueError"]
               /\ UNCHANGED all_issues
          ELSE /\ all_issues' =
                    IF ParseInt(match) < Threshold
                      THEN Append(all_issues, UrlIssue(ParseInt(match), current_year))
                      ELSE all_issues
               /\ pc' = "return"
               /\ UNCHANGED result
  /\ UNCHANGED <<answer_text, url, current_year, code_blocks, i, findings>>

\* the two returns at the end
Return ==
  /\ pc = "return"
  /\ result' = IF all_issues # <<>> THEN ProbablyOutdated(all_issues) ELSE MaybeOk
  /\ pc' = "done"
  /\ UNCHANGED <<answer_text, url, current_year, code_blocks, i, findings, all_issues>>

Next == Extract \/ AnalyzeBlock \/ UrlHeuristic \/ Return

-----------------------------------------------------------------------------
(* The inputs *)

RECURSIVE Flatten(_)
Flatten(ss) == IF ss = <<>> THEN <<>> ELSE ss[1] \o Flatten(Tail(ss))

\* every concatenation of at most n of the pieces
Concats(pieces, n) ==
  {Flatten(f) : f \in UNION {[1..k -> pieces] : k \in 0..n}}

InitWith(texts, urls, years) ==
  /\ answer_text \in texts
  /\ url \in urls
  /\ current_year \in years
  /\ pc = "start"
  /\ code_blocks = <<>>
  /\ i = 0
  /\ findings = <<>>
  /\ all_issues = <<>>
  /\ result = NotReturned

\* Answers made of whole segments: prose, clean blocks and flagged blocks.
MaxSegments == 3

Segments ==
  \* { "Try this:\n",
  { <<"T", "r", "y", " ", "t", "h", "i", "s", ":", "\n">>,
    \* "```\nx = 1\n```\n",
    <<Backtick, Backtick, Backtick, "\n", "x", " ", "=", " ", "1", "\n", Backtick, Backtick, Backtick, "\n">>,
    \* "```python\nimport md5\n```\n",
    <<Backtick, Backtick, Backtick, "p", "y", "t", "h", "o", "n", "\n", "i", "m", "p", "o", "r", "t", " ", "m", "d", "5", "\n", Backtick, Backtick, Backtick, "\n">>,
    \* "```\nimport urllib2\nport = 8080\n```\n",
    <<Backtick, Backtick, Backtick, "\n", "i", "m", "p", "o", "r", "t", " ", "u", "r", "l", "l", "i", "b", "2", "\n", "p", "o", "r", "t", " ", "=", " ", "8", "0", "8", "0", "\n", Backtick, Backtick, Backtick, "\n">>,
    \* "```js\nprint x\n```\n" }
    <<Backtick, Backtick, Backtick, "j", "s", "\n", "p", "r", "i", "n", "t", " ", "x", "\n", Backtick, Backtick, Backtick, "\n">> }

\* OldQuestion == "https://stackoverflow.com/questions/4321/old"
OldQuestion == <<"h", "t", "t", "p", "s", ":", "/", "/", "s", "t", "a", "c", "k", "o", "v", "e", "r", "f", "l", "o", "w", ".", "c", "o", "m", "/", "q", "u", "e", "s", "t", "i", "o", "n", "s", "/", "4", "3", "2", "1", "/", "o", "l", "d">>
\* NewQuestion == "https://stackoverflow.com/questions/1000000/new"
NewQuestion == <<"h", "t", "t", "p", "s", ":", "/", "/", "s", "t", "a", "c", "k", "o", "v", "e", "r", "f", "l", "o", "w", ".", "c", "o", "m", "/", "q", "u", "e", "s", "t", "i", "o", "n", "s", "/", "1", "0", "0", "0", "0", "0", "0", "/", "n", "e", "w">>

Init == InitWith(Concats(Segments, MaxSegments),
                 {None, <<>>, OldQuestion, NewQuestion},
                 {2024, 2025})

Spec == Init /\ [][Next]_vars

\* Answers made of fences, fence lines and filler: well-formed blocks, other
\* language tags, unterminated fences and fences in running text.
MaxFencePieces == 5

FencePieces ==
  \* { "```", "```\n", "```python\n", "```js\n", "a", "b" }
  { <<Backtick, Backtick, Backtick>>, <<Backtick, Backtick, Backtick, "\n">>, <<Backtick, Backtick, Backtick, "p", "y", "t", "h", "o", "n", "\n">>, <<Backtick, Backtick, Backtick, "j", "s", "\n">>, <<"a">>, <<"b">> }

InitExtract == InitWith(Concats(FencePieces, MaxFencePieces),
                        {None, OldQuestion},
                        {2025})

SpecExtract == InitExtract /\ [][Next]_vars

\* Answers with one block whose code is made of tokens, alone or behind
\* another block.
MaxTokens == 3

ScanTokens ==
  \* { "from tkinter import ttk\n", "import urllib2\n",
  { <<"f", "r", "o", "m", " ", "t", "k", "i", "n", "t", "e", "r", " ", "i", "m", "p", "o", "r", "t", " ", "t", "t", "k", "\n">>, <<"i", "m", "p", "o", "r", "t", " ", "u", "r", "l", "l", "i", "b", "2", "\n">>,
    \* "from StringIO import ", "import md5\n", "print ",
    <<"f", "r", "o", "m", " ", "S", "t", "r", "i", "n", "g", "I", "O", " ", "i", "m", "p", "o", "r", "t", " ">>, <<"i", "m", "p", "o", "r", "t", " ", "m", "d", "5", "\n">>, <<"p", "r", "i", "n", "t", " ">>,
    \* "x", "(", " ", "_", "12", "123" }
    <<"x">>, <<"(">>, <<" ">>, <<"_">>, <<"1", "2">>, <<"1", "2", "3">> }

\* OneBlock(code) == "```\n" \o code \o "```\n"
OneBlock(code) == <<Backtick, Backtick, Backtick, "\n">> \o code \o <<Backtick, Backtick, Backtick, "\n">>

InitScan ==
  InitWith({OneBlock(c) : c \in Concats(ScanTokens, MaxTokens)}
             \* \cup {OneBlock("import md5 4096\n") \o OneBlock(c) :
             \cup {OneBlock(<<"i", "m", "p", "o", "r", "t", " ", "m", "d", "5", " ", "4", "0", "9", "6", "\n">>) \o OneBlock(c) :
                     c \in Concats(ScanTokens, MaxTokens)},
           {None},
           {2025})

SpecScan == InitScan /\ [][Next]_vars

\* Urls made of question-page segments of this and of another site, and one
\* url whose identifier is longer than int() accepts.
MaxUrlSegments == 2

UrlSegments ==
  { host \o Questions \o id \o tail :
      \* host \in { "stackoverflow.com/", "example.org/" },
      host \in { <<"s", "t", "a", "c", "k", "o", "v", "e", "r", "f", "l", "o", "w", ".", "c", "o", "m", "/">>, <<"e", "x", "a", "m", "p", "l", "e", ".", "o", "r", "g", "/">> },
      \* id \in { "7", "0012", "999999", "1000000" },
      id \in { <<"7">>, <<"0", "0", "1", "2">>, <<"9", "9", "9", "9", "9", "9">>, <<"1", "0", "0", "0", "0", "0", "0">> },
      \* tail \in { "/", <<>> } }
      tail \in { <<"/">>, <<>> } }

LongIdUrl ==
  QuestionPage \o [k \in 1..(IntMaxStrDigits + 1) |-> "1"] \o <<Slash>>

InitUrl ==
  \* InitWith({ "Just think harder.\n", "```\nx = 1\n```\n",
  InitWith({ <<"J", "u", "s", "t", " ", "t", "h", "i", "n", "k", " ", "h", "a", "r", "d", "e", "r", ".", "\n">>, <<Backtick, Backtick, Backtick, "\n", "x", " ", "=", " ", "1", "\n", Backtick, Backtick, Backtick, "\n">>,
             \* "```\nimport md5\n```\n" },
             <<Backtick, Backtick, Backtick, "\n", "i", "m", "p", "o", "r", "t", " ", "m", "d", "5", "\n", Backtick, Backtick, Backtick, "\n">> },
           {None, LongIdUrl}
             \* \cup { "https://" \o u : u \in Concats(UrlSegments, MaxUrlSegments)},
             \cup { <<"h", "t", "t", "p", "s", ":", "/", "/">> \o u : u \in Concats(UrlSegments, MaxUrlSegments)},
           {2024, 2026})

SpecUrl == InitUrl /\ [][Next]_vars

-----------------------------------------------------------------------------
(* What the specification's words mean, stated apart from the code *)

\* validate_stackoverflow_answer has returned
Returned == pc = "done"

\* text holds two triple backticks that do not overlap
HasFencePair(text) ==
  \E p \in 1..Len(text) : \E q \in (p + 3)..Len(text) :
    MatchLit(text, p, Fence) /\ MatchLit(text, q, Fence)

\* An opening fence at p: three backticks, an optional language tag (letters)
\* and the end of the line. The position after the line, else 0.
OpeningFenceEnd(text, p) ==
  IF ~MatchLit(text, p, Fence) THEN 0
  ELSE LET rest == {k \in (p + 3)..Len(text) : text[k] \notin Letters}
       IN IF rest = {} THEN 0
          ELSE LET t == CHOOSE k \in rest : \A m \in rest : k <= m
               IN IF text[t] = "\n" THEN t + 1 ELSE 0

\* The contents of the fenced blocks of text from position p on: each block
\* runs from an opening fence to the first closing fence after it.
RECURSIVE FencedBlocksFrom(_, _)
FencedBlocksFrom(text, p) ==
  IF p > Len(text) THEN <<>>
  ELSE LET start == OpeningFenceEnd(text, p)
           fences == IF start = 0 THEN {}
                     ELSE {q \in start..Len(text) : MatchLit(text, q, Fence)}
       IN IF fences = {} THEN FencedBlocksFrom(text, p + 1)
          ELSE LET close == CHOOSE q \in fences : \A m \in fences : q <= m
               IN <<SubSeq(text, start, close - 1)>>
                    \o FencedBlocksFrom(text, close + 3)

FencedBlocks(text) == FencedBlocksFrom(text, 1)

\* phrase is a substring of block
Occurs(phrase, block) ==
  \E a \in 1..(Len(block) - Len(phrase) + 1) :
    SubSeq(block, a, a + Len(phrase) - 1) = phrase

\* The five rules in table order: what must occur, and the message
RuleMessage ==
  << "ttk is still fine, but are YOU?",
     "Python 2 called, it wants its imports back",
     "This import is so old it has a pension",
     "MD5? More like M-Deprecated",
     "Missing parentheses - the classic sign of vintage code" >>

RuleOccurs(r, block) ==
  \* CASE r = 1 -> Occurs("from tkinter import ttk", block)
  CASE r = 1 -> Occurs(<<"f", "r", "o", "m", " ", "t", "k", "i", "n", "t", "e", "r", " ", "i", "m", "p", "o", "r", "t", " ", "t", "t", "k">>, block)
    \* [] r = 2 -> Occurs("import urllib2", block)
    [] r = 2 -> Occurs(<<"i", "m", "p", "o", "r", "t", " ", "u", "r", "l", "l", "i", "b", "2">>, block)
    \* [] r = 3 -> Occurs("from StringIO import", block)
    [] r = 3 -> Occurs(<<"f", "r", "o", "m", " ", "S", "t", "r", "i", "n", "g", "I", "O", " ", "i", "m", "p", "o", "r", "t">>, block)
    \* [] r = 4 -> Occurs("import md5", block)
    [] r = 4 -> Occurs(<<"i", "m", "p", "o", "r", "t", " ", "m", "d", "5">>, block)
    [] r = 5 -> \E c \in Digits \cup Letters \cup {"_"} :
                  \* Occurs("print " \o <<c>>, block)
                  Occurs(<<"p", "r", "i", "n", "t", " ">> \o <<c>>, block)

\* The standalone numeric tokens of three or more digits, as spans <<a, b>>:
\* a whole run of word characters that is all digits
TokenSpans(block) ==
  LET firsts == {a \in 1..Len(block) :
                   block[a] \in Digits /\ (a = 1 \/ ~IsWord(block[a - 1]))}
      lasts  == {b \in 1..Len(block) :
                   block[b] \in Digits /\ (b = Len(block) \/ ~IsWord(block[b + 1]))}
  IN {sp \in firsts \X lasts :
        /\ sp[2] - sp[1] + 1 >= 3
        /\ \A k \in sp[1]..sp[2] : block[k] \in Digits}

\* the tokens in order of appearance
RECURSIVE InOrder(_, _)
InOrder(block, spans) ==
  IF spans = {} THEN <<>>
  ELSE LET first == CHOOSE sp \in spans : \A o \in spans : sp[1] <= o[1]
       IN <<SubSeq(block, first[1], first[2])>> \o InOrder(block, spans \ {first})

NumericTokens(block) == InOrder(block, TokenSpans(block))

\* a, b, c with ", " between
RECURSIVE CommaSeparated(_)
CommaSeparated(tokens) ==
  IF Len(tokens) = 0 THEN <<>>
  ELSE IF Len(tokens) = 1 THEN tokens[1]
  ELSE CommaSeparated(SubSeq(tokens, 1, Len(tokens) - 1))
         \o <<", ">> \o tokens[Len(tokens)]

IsMagicFinding(f) == Len(f) >= 1 /\ f[1] = "Magic number(s) found: "

IsRuleMessage(f) == \E r \in 1..5 : f = <<RuleMessage[r]>>

IsUrlIssue(f) == Len(f) >= 1 /\ f[1] = "Question ID "

\* The question identifier of url: the digit run behind the first
\* stackoverflow.com/questions/ that a slash follows; None without one.
QuestionIdentifier(u) ==
  LET starts == {a \in (Len(QuestionPage) + 1)..Len(u) :
                   /\ MatchLit(u, a - Len(QuestionPage), QuestionPage)
                   /\ IsDigit(u[a])
                   /\ DigitRunEnd(u, a) <= Len(u)
                   /\ u[DigitRunEnd(u, a)] = "/"}
  IN IF u = None \/ starts = {} THEN None
     ELSE LET a == CHOOSE x \in starts : \A m \in starts : x <= m
          IN SubSeq(u, a, DigitRunEnd(u, a) - 1)

\* the identifier is a number below the threshold (identifiers of more than
\* nine digits in the inputs have no leading zero)
BelowThreshold(id) == Len(id) <= 9 /\ ParseInt(id) < Threshold

\* the blocks the analysis flagged, once the loop is over
Flagged == {k \in 1..Len(findings) : findings[k] # <<>>}

\* n in decimal
RECURSIVE Decimal(_)
Decimal(n) ==
  IF n = 0 THEN <<>>
  ELSE Decimal(n \div 10)
         \o <<CHOOSE c \in Digits : DigitValue(c) = n % 10>>

\* the findings with " | " between
RECURSIVE Barred(_)
Barred(fs) ==
  IF Len(fs) = 0 THEN <<>>
  ELSE IF Len(fs) = 1 THEN fs[1]
  ELSE Barred(SubSeq(fs, 1, Len(fs) - 1)) \o <<" | ">> \o fs[Len(fs)]

\* every issue behind a newline and a dash
RECURSIVE Dashed(_)
Dashed(list) ==
  IF Len(list) = 0 THEN <<>>
  ELSE Dashed(SubSeq(list, 1, Len(list) - 1)) \o <<"\n- ">> \o list[Len(list)]

-----------------------------------------------------------------------------
(* The claims *)

\* C1: for every answer text and every url, validate_stackoverflow_answer
\* returns without failing; the status of the verdict is one of SUSPICIOUS,
\* PROBABLY_OUTDATED and MAYBE_OK, and the verdict has an advice exactly when
\* its status is not SUSPICIOUS.
C1_AlwaysAWellFormedVerdict ==
  /\ pc # "raised"
  /\ Returned =>
       /\ result.status \in {"SUSPICIOUS", "PROBABLY_OUTDATED", "MAYBE_OK"}
       /\ ("advice" \in DOMAIN result) <=> (result.status # "SUSPICIOUS")

\* C2: a text with at least one well-formed fence pair, no rule and no magic
\* number matching any of its blocks, and no triggering url gets MAYBE_OK
\* with the fixed message and the fixed advice.
C2_CleanBlocksAreMaybeOk ==
  ( /\ Returned
    /\ FencedBlocks(answer_text) # <<>>
    /\ \A k \in 1..Len(FencedBlocks(answer_text)) :
         /\ \A r \in 1..5 : ~RuleOccurs(r, FencedBlocks(answer_text)[k])
         /\ NumericTokens(FencedBlocks(answer_text)[k]) = <<>>
    /\ QuestionIdentifier(url) = None )
  => /\ result.status = "MAYBE_OK"
     /\ result.message =
          <<"No obvious red flags. But remember: Stack Overflow answers age like milk.">>
     /\ result.advice =
          <<"Test thoroughly before production. Or better yet, write your own solution.">>

\* C3: a text with no pair of triple-backtick fences gets SUSPICIOUS with the
\* fixed message and no advice whatever the url, and nothing is analysed.
C3_NoFencePairIsSuspicious ==
  (Returned /\ ~HasFencePair(answer_text))
  => /\ result.status = "SUSPICIOUS"
     /\ result.message =
          <<"No code blocks found. Probably just philosophical advice about programming.">>
     /\ "advice" \notin DOMAIN result
     /\ findings = <<>>
     /\ all_issues = <<>>

\* C3 happens: an unterminated fence, a url with an identifier below the
\* threshold, and the verdict is SUSPICIOUS.
C3_Witness ==
  /\ Returned
  /\ ~HasFencePair(answer_text)
  /\ \E p \in 1..Len(answer_text) : OpeningFenceEnd(answer_text, p) # 0
  /\ QuestionIdentifier(url) # None
  /\ BelowThreshold(QuestionIdentifier(url))
  /\ result.status = "SUSPICIOUS"

\* C4: extract_code_blocks returns exactly the contents of the fenced blocks
\* of the text, in order: each from an opening fence (its language tag
\* dropped) to the first closing fence after it.
C4_ExtractsTheFencedBlocks ==
  pc # "start" => code_blocks = FencedBlocks(answer_text)

\* C5: with at least one block, no block finding, and a url whose question
\* identifier is below 1,000,000, the status is PROBABLY_OUTDATED and the only
\* issue is the URL line naming that identifier and the year five back.
C5_OldQuestionAloneIsOutdated ==
  ( /\ pc \in {"done", "raised"}
    /\ code_blocks # <<>>
    /\ Flagged = {}
    /\ QuestionIdentifier(url) # None
    /\ BelowThreshold(QuestionIdentifier(url)) )
  => /\ Returned
     /\ result.status = "PROBABLY_OUTDATED"
     /\ all_issues =
          << <<"Question ID ">> \o Decimal(ParseInt(QuestionIdentifier(url)))
               \o <<" looks ancient (like before ">>
               \o Decimal(current_year - 5) \o <<")">> >>

\* C6: for a url whose question identifier is 1,000,000 or more the URL
\* heuristic adds no issue: the issues are the block summaries alone.
C6_NewQuestionAddsNoIssue ==
  ( /\ pc \in {"return", "done"}
    /\ code_blocks # <<>>
    /\ QuestionIdentifier(url) # None
    /\ ~BelowThreshold(QuestionIdentifier(url)) )
  => /\ Len(all_issues) = Cardinality(Flagged)
     /\ \A k \in 1..Len(all_issues) : ~IsUrlIssue(all_issues[k])

\* C7: once the loop is over, the issue list is one summary "Block k: ..." per
\* flagged block and none for the others, k being the block's position among
\* all extracted blocks, in increasing block order, a summary for each of two
\* equal blocks, and the URL issue, when there is one, comes last.
C7_IssueListIsSummariesThenUrl ==
  (pc \in {"return", "done"} /\ code_blocks # <<>>)
  => /\ Len(findings) = Len(code_blocks)
     /\ Len(all_issues) \in {Cardinality(Flagged), Cardinality(Flagged) + 1}
     /\ \A k \in Flagged :
          all_issues[Cardinality({m \in Flagged : m <= k})]
            = <<"Block ">> \o Decimal(k) \o <<": ">> \o Barred(findings[k])
     /\ Len(all_issues) = Cardinality(Flagged) + 1
          => IsUrlIssue(all_issues[Len(all_issues)])

\* C7 happens: a clean block, then two equal flagged blocks, then the URL issue.
C7_Witness ==
  /\ Returned
  /\ Len(code_blocks) = 3
  /\ code_blocks[2] = code_blocks[3]
  /\ Flagged = {2, 3}
  /\ Len(all_issues) = 3
  /\ all_issues[1][2] = "2"
  /\ IsUrlIssue(all_issues[3])

C9_FindingsOfABlock ==
  pc = "loop" => \A k \in 1..Len(findings) :
    LET f == findings[k]
        block == code_blocks[k]
    IN /\ \A r \in 1..5 :
            Cardinality({n \in 1..Len(f) : f[n] = <<RuleMessage[r]>>})
              = IF RuleOccurs(r, block) THEN 1 ELSE 0
       /\ \A n \in 1..Len(f) :
            \/ IsRuleMessage(f[n])
            \/ IsMagicFinding(f[n]) /\ n = Len(f)
       /\ \A n \in 1..Len(f) : \A m \in (n + 1)..Len(f) :
            \A r \in 1..5 : \A q \in 1..5 :
              (f[n] = <<RuleMessage[r]>> /\ f[m] = <<RuleMessage[q]>>) => r < q
       /\ \A j \in 1..Len(findings) :
            code_blocks[j] = block => findings[j] = f

\* C9 happens: a pattern occurs twice and gives one message, another rule
\* matches too, and a magic-number finding comes last.
C9_Witness ==
  \E k \in 1..Len(findings) :
    /\ \E a \in 1..Len(code_blocks[k]) : \E b \in (a + 1)..Len(code_blocks[k]) :
         \* /\ MatchLit(code_blocks[k], a, "import md5")
         /\ MatchLit(code_blocks[k], a, <<"i", "m", "p", "o", "r", "t", " ", "m", "d", "5">>)
         \* /\ MatchLit(code_blocks[k], b, "import md5")
         /\ MatchLit(code_blocks[k], b, <<"i", "m", "p", "o", "r", "t", " ", "m", "d", "5">>)
    /\ Len(findings[k]) = 2
    /\ findings[k][1] = <<"MD5? More like M-Deprecated">>
    /\ IsMagicFinding(findings[k][2])

\* C10: after every turn of the loop, check_for_magic_numbers has given one
\* finding when the block has a standalone numeric token of three or more
\* digits and none otherwise; the finding lists every such token as written,
\* in order of appearance, with commas between, and nothing else.
C10_MagicNumbersListed ==
  pc = "loop" => \A k \in 1..Len(findings) :
    LET f == findings[k]
        tokens == NumericTokens(code_blocks[k])
        magic == {n \in 1..Len(f) : IsMagicFinding(f[n])}
    IN /\ Cardinality(magic) = IF tokens = <<>> THEN 0 ELSE 1
       /\ \A n \in magic :
            f[n] = <<"Magic number(s) found: ">> \o CommaSeparated(tokens)
                     \o <<" - hope they're not port numbers">>

\* C10 happens: a token is listed, and the block also has a digit that belongs
\* to no token (a short run, or a run inside a word).
C10_Witness ==
  \E k \in 1..Len(findings) :
    /\ Len(NumericTokens(code_blocks[k])) >= 1
    /\ \E p \in 1..Len(code_blocks[k]) :
         /\ IsDigit(code_blocks[k][p])
         /\ \A sp \in TokenSpans(code_blocks[k]) : p < sp[1] \/ p > sp[2]
    /\ \E n \in 1..Len(findings[k]) : IsMagicFinding(findings[k][n])

=============================================================================
